---- MODULE Spec2Model ----
(***************************************************************************)
(* MultiGetFileMixin / MultiGetFile of grr/server/flows/general/transfer.py *)
(* as a state machine.  One action per flow entry point or state handler;   *)
(* a handler and every helper it calls run as one atomic step, because the  *)
(* flow runtime dispatches one response bundle at a time.                   *)
(*                                                                         *)
(* Python indices are 0-based: index i lives at position i+1 of the        *)
(* sequences indexed_pathspecs and request_data_list.                      *)
(***************************************************************************)
EXTENDS Integers, Sequences, FiniteSets, TLC

\* ---- bounds of the model ------------------------------------------------
MaxFiles == 2
MaxPending == 2
MaxSize == 4
MaxBlockFiles == 1
MaxWindowFiles == 3

\* ---- program constants (scaled down) ------------------------------------
CHUNK_SIZE == 2
MIN_CALL_TO_FILE_STORE == 2

\* Python's None and an absent dict key, per type of the slot.
None == "None"
Unset == 0 - 1
NoStatEntry == [st_size |-> Unset, pathspec |-> None]
NoHash == [sha256 |-> None]

\* Inputs of the caller.  Pathspecs are opaque to the flow, so a caller of
\* StartFileFetch is taken to name them in the order of their first use.
PathSpecs == {"p1", "p2"}
PathSpecOrder == <<"p1", "p2">>
NextPathSpecs(used) ==
  used \cup {PathSpecOrder[k] : k \in {j \in 1..Len(PathSpecOrder) : j <= Cardinality(used) + 1}}
\* The caller tags its k-th StartFileFetch call with the k-th of these.
RequestData == <<"rd0", "rd1", "rd2", "rd3", "rd4">>

\* Contents of the collaborating stores and the digests an agent may report.
FileDigests == {"hA", "hB"}
FileStoreIndex == {"hA"}
BlockDigests == {"bA", "bB"}
BlobStore == {"bA"}

VARIABLES
  indexed_pathspecs, request_data_list, pending_hashes, pending_files,
  files_hashed, files_to_fetch, files_fetched, files_skipped,
  files_hashed_since_check, blob_hashes_pending, next_pathspec_to_start,
  maximum_pending_files,
  requests, call_state, flow_status, entry, workload,
  fetch_log, callbacks, rpc_log, hashed, hits, copies, images, check_hashes_calls,
  removals, checks, dropped

vars == <<indexed_pathspecs, request_data_list, pending_hashes, pending_files,
          files_hashed, files_to_fetch, files_fetched, files_skipped,
          files_hashed_since_check, blob_hashes_pending, next_pathspec_to_start,
          maximum_pending_files,
          requests, call_state, flow_status, entry, workload,
          fetch_log, callbacks, rpc_log, hashed, hits, copies, images, check_hashes_calls,
          removals, checks, dropped>>

\* ---- small helpers ------------------------------------------------------
EmptyMap == [i \in {} |-> None]

Pop(map, index) == [i \in (DOMAIN map) \ {index} |-> map[i]]

Put(map, index, value) == [i \in (DOMAIN map) \cup {index} |-> IF i = index THEN value ELSE map[i]]

RECURSIVE SortedKeys(_)
SortedKeys(keys) ==
  IF keys = {} THEN <<>>
  ELSE LET k == CHOOSE m \in keys : \A o \in keys : m <= o
       IN <<k>> \o SortedKeys(keys \ {k})

RECURSIVE SumLengths(_)
SumLengths(blobs) ==
  IF blobs = <<>> THEN 0 ELSE Head(blobs).length + SumLengths(Tail(blobs))

AFF4Path(pathspec) == <<"fs", "os", pathspec>>

\* The state bag of the flow, the runtime's queues and the observation logs
\* as one record, so that helpers compose like the method calls they model.
Bag ==
  [indexed_pathspecs |-> indexed_pathspecs, request_data_list |-> request_data_list,
   pending_hashes |-> pending_hashes, pending_files |-> pending_files,
   files_hashed |-> files_hashed, files_to_fetch |-> files_to_fetch,
   files_fetched |-> files_fetched, files_skipped |-> files_skipped,
   files_hashed_since_check |-> files_hashed_since_check,
   blob_hashes_pending |-> blob_hashes_pending,
   next_pathspec_to_start |-> next_pathspec_to_start,
   maximum_pending_files |-> maximum_pending_files,
   requests |-> requests, call_state |-> call_state, flow_status |-> flow_status,
   fetch_log |-> fetch_log, callbacks |-> callbacks, rpc_log |-> rpc_log,
   hashed |-> hashed, hits |-> hits, copies |-> copies, images |-> images, check_hashes_calls |-> check_hashes_calls,
   removals |-> removals, checks |-> checks, dropped |-> dropped]

Commit(s) ==
  /\ indexed_pathspecs' = s.indexed_pathspecs
  /\ request_data_list' = s.request_data_list
  /\ pending_hashes' = s.pending_hashes
  /\ pending_files' = s.pending_files
  /\ files_hashed' = s.files_hashed
  /\ files_to_fetch' = s.files_to_fetch
  /\ files_fetched' = s.files_fetched
  /\ files_skipped' = s.files_skipped
  /\ files_hashed_since_check' = s.files_hashed_since_check
  /\ blob_hashes_pending' = s.blob_hashes_pending
  /\ next_pathspec_to_start' = s.next_pathspec_to_start
  /\ maximum_pending_files' = s.maximum_pending_files
  /\ requests' = s.requests
  /\ call_state' = s.call_state
  /\ flow_status' = s.flow_status
  /\ fetch_log' = s.fetch_log
  /\ callbacks' = s.callbacks
  /\ rpc_log' = s.rpc_log
  /\ hashed' = s.hashed
  /\ hits' = s.hits
  /\ copies' = s.copies
  /\ images' = s.images
  /\ check_hashes_calls' = s.check_hashes_calls
  /\ removals' = s.removals
  /\ checks' = s.checks
  /\ dropped' = s.dropped

\* An uncaught exception inside a handler: the runtime ends the flow in error.
Raise(s, exception) == [s EXCEPT !.flow_status = exception]

Failed(s) == s.flow_status \notin {"running"}

\* ---- runtime operations the flow uses -----------------------------------
CallClient(s, name, index, pathspec, offset, length, data) ==
  [s EXCEPT
     !.requests = @ \cup {[name |-> name, index |-> index, pathspec |-> pathspec,
                           offset |-> offset, length |-> length, data |-> data]},
     !.rpc_log[index] = Append(@, [name |-> name, offset |-> offset, length |-> length])]

RECURSIVE Queued(_)
Queued(batches) ==
  IF batches = <<>> THEN 0 ELSE Len(Head(batches)) + Queued(Tail(batches))

OutstandingRequests(s) == Cardinality(s.requests) + Queued(s.call_state)

\* CallState bundles of one FetchFileContent run keep their relative order.
CallStateBatch(s, batch) ==
  IF batch = <<>> THEN s ELSE [s EXCEPT !.call_state = Append(@, batch)]

\* ---- the caller's callbacks (recorded) ----------------------------------
ReceiveFetchedFile(s, index, stat_entry, file_hash, request_data) ==
  [s EXCEPT !.callbacks[index] =
     Append(@, [kind |-> "ReceiveFetchedFile", pathspec |-> stat_entry.pathspec,
                name |-> None, request_data |-> request_data])]

FileFetchFailed(s, index, pathspec, request_name, request_data) ==
  [s EXCEPT !.callbacks[index] =
     Append(@, [kind |-> "FileFetchFailed", pathspec |-> pathspec,
                name |-> request_name, request_data |-> request_data])]

\* ---- admission window ---------------------------------------------------
NewTracker(index) ==
  [index |-> index, stat_entry |-> NoStatEntry, hash_obj |-> NoHash, bytes_read |-> Unset,
   size_to_download |-> Unset, hash_list |-> <<>>, blobs |-> <<>>]

\* Variant of the admission that does not advance next_pathspec_to_start.
AdmitWithoutAdvancing(s) ==
  IF s.maximum_pending_files <= Cardinality(DOMAIN s.pending_files) THEN s
  ELSE IF s.maximum_pending_files <= Cardinality(DOMAIN s.pending_hashes) THEN s
  ELSE IF s.next_pathspec_to_start >= Len(s.indexed_pathspecs) THEN s
  ELSE
    LET index == s.next_pathspec_to_start
        pathspec == s.indexed_pathspecs[index + 1]
        s1 == [s EXCEPT !.pending_hashes = Put(@, index, NewTracker(index))]
        s2 == CallClient(s1, "StatFile", index, pathspec, Unset, Unset, None)
    IN CallClient(s2, "HashFile", index, pathspec, Unset, Unset, None)

_TryToStartNextPathspec(s) ==
  IF s.maximum_pending_files <= Cardinality(DOMAIN s.pending_files) THEN s
  ELSE IF s.maximum_pending_files <= Cardinality(DOMAIN s.pending_hashes) THEN s
  ELSE IF s.next_pathspec_to_start >= Len(s.indexed_pathspecs) THEN s
  ELSE
    LET index == s.next_pathspec_to_start
        pathspec == s.indexed_pathspecs[index + 1]
        s1 == [s EXCEPT !.next_pathspec_to_start = index + 1,
                        !.pending_hashes = Put(@, index, NewTracker(index))]
        s2 == CallClient(s1, "StatFile", index, pathspec, Unset, Unset, None)
    IN CallClient(s2, "HashFile", index, pathspec, Unset, Unset, None)

StartFileFetch(s, pathspec, request_data) ==
  LET index == Len(s.indexed_pathspecs)
      s1 == [s EXCEPT !.indexed_pathspecs = Append(@, pathspec),
                      !.request_data_list = Append(@, request_data),
                      !.fetch_log = Append(@, [pathspec |-> pathspec, request_data |-> request_data]),
                      !.callbacks = (index :> <<>>) @@ @,
                      !.rpc_log = (index :> <<>>) @@ @,
                      !.removals = (index :> 0) @@ @]
  IN _TryToStartNextPathspec(s1)

\* Variant of the removal that clears the slots and leaves the trackers.
ClearWithoutPopping(s, index) ==
  _TryToStartNextPathspec(
    [s EXCEPT !.indexed_pathspecs[index + 1] = None,
              !.request_data_list[index + 1] = None,
              !.removals[index] = @ + 1])

_RemoveCompletedPathspec(s, index) ==
  _TryToStartNextPathspec(
    [s EXCEPT !.indexed_pathspecs[index + 1] = None,
              !.request_data_list[index + 1] = None,
              !.removals[index] = @ + 1,
              !.pending_hashes = Pop(@, index),
              !.pending_files = Pop(@, index)])

\* Variant of _ReceiveFetchedFile that retires the index without calling
\* ReceiveFetchedFile.
RemoveWithoutReporting(s, tracker) == _RemoveCompletedPathspec(s, tracker.index)

_ReceiveFetchedFile(s, tracker) ==
  LET index == tracker.index
      request_data == s.request_data_list[index + 1]
      s1 == _RemoveCompletedPathspec(s, index)
  IN IF tracker.stat_entry = NoStatEntry THEN Raise(s1, "KeyError")
     ELSE ReceiveFetchedFile(s1, index, tracker.stat_entry, tracker.hash_obj, request_data)

\* Variant of _FileFetchFailed that reports the failure and leaves the tracker
\* in its pending map.
ReportWithoutRemoving(s, index, request_name) ==
  FileFetchFailed(s, index, s.indexed_pathspecs[index + 1], request_name,
                  s.request_data_list[index + 1])

_FileFetchFailed(s, index, request_name) ==
  LET pathspec == s.indexed_pathspecs[index + 1]
      request_data == s.request_data_list[index + 1]
  IN FileFetchFailed(_RemoveCompletedPathspec(s, index), index, pathspec,
                     request_name, request_data)

\* ---- hash-phase batcher --------------------------------------------------
\* CheckHashes of the file-hash index: one result per distinct sha256 it holds.
CheckHashes(hashes) == {h.sha256 : h \in hashes} \cap FileStoreIndex

\* aff4.FACTORY.Copy of the stored file into the client's namespace (495-504).
Copy(s, index) == [s EXCEPT !.copies = @ \cup {index}]

\* Lines 488-514, for the hit trackers in iteration order.
RECURSIVE CopyHits(_, _)
CopyHits(s, trackers) ==
  IF trackers = <<>> \/ Failed(s) THEN s
  ELSE LET file_tracker == Head(trackers)
       IN IF file_tracker.stat_entry = NoStatEntry THEN Raise(s, "KeyError")
          ELSE CopyHits(_ReceiveFetchedFile(Copy(s, file_tracker.index), file_tracker),
                        Tail(trackers))

\* Variant of the block plan in which the last chunk is requested in full.
RECURSIVE FullBlockPlan(_, _, _, _)
FullBlockPlan(s, file_tracker, i, expected_number_of_hashes) ==
  IF i >= expected_number_of_hashes THEN s
  ELSE FullBlockPlan(CallClient(s, "HashBuffer", file_tracker.index,
                                file_tracker.stat_entry.pathspec,
                                i * CHUNK_SIZE, CHUNK_SIZE, None),
                     file_tracker, i + 1, expected_number_of_hashes)

\* Lines 541-553: one HashBuffer request per chunk, the last one short.
RECURSIVE BlockPlan(_, _, _, _)
BlockPlan(s, file_tracker, i, expected_number_of_hashes) ==
  IF i >= expected_number_of_hashes THEN s
  ELSE LET length == IF i = expected_number_of_hashes - 1
                     THEN file_tracker.size_to_download % CHUNK_SIZE
                     ELSE CHUNK_SIZE
       IN BlockPlan(CallClient(s, "HashBuffer", file_tracker.index,
                               file_tracker.stat_entry.pathspec,
                               i * CHUNK_SIZE, length, None),
                    file_tracker, i + 1, expected_number_of_hashes)

\* Variant of the move of lines 522-523 that leaves the tracker in
\* pending_hashes as well.
CopyToPendingFiles(s, index) ==
  [s EXCEPT !.pending_files = Put(@, index, s.pending_hashes[index])]

\* Lines 522-523: the tracker leaves pending_hashes and enters pending_files.
MoveToPendingFiles(s, index) ==
  [s EXCEPT !.pending_hashes = Pop(@, index),
            !.pending_files = Put(@, index, s.pending_hashes[index])]

\* Lines 518-553, for the missed indices in iteration order.
RECURSIVE MoveMisses(_, _)
MoveMisses(s, indices) ==
  IF indices = <<>> \/ Failed(s) THEN s
  ELSE
    LET index == Head(indices)
        popped == s.pending_hashes[index]
        s1 == MoveToPendingFiles(s, index)
    IN IF popped.bytes_read <= 0 /\ popped.stat_entry = NoStatEntry THEN Raise(s1, "KeyError")
       ELSE
         LET size == IF popped.bytes_read > 0 THEN popped.bytes_read
                     ELSE popped.stat_entry.st_size
             file_tracker == [popped EXCEPT !.size_to_download = size]
             expected_number_of_hashes == (size \div CHUNK_SIZE) + 1
             s2 == [s1 EXCEPT !.pending_files[index] = file_tracker,
                              !.files_to_fetch = @ + 1]
         IN IF file_tracker.stat_entry = NoStatEntry THEN Raise(s2, "KeyError")
            ELSE MoveMisses(BlockPlan(s2, file_tracker, 0, expected_number_of_hashes),
                            Tail(indices))

_CheckHashesWithFileStore(s) ==
  IF Failed(s) \/ DOMAIN s.pending_hashes = {} THEN s
  ELSE
    LET file_hashes == {i \in DOMAIN s.pending_hashes : s.pending_hashes[i].hash_obj # NoHash}
        found == CheckHashes({s.pending_hashes[i].hash_obj : i \in file_hashes})
        hit_indices == {i \in file_hashes : s.pending_hashes[i].hash_obj.sha256 \in found}
        hit_trackers == [k \in 1..Cardinality(hit_indices) |->
                           s.pending_hashes[SortedKeys(hit_indices)[k]]]
        s1 == [s EXCEPT !.check_hashes_calls = @ + 1,
                        !.checks = Append(@, [hashes |-> file_hashes,
                                              pending |-> DOMAIN s.pending_hashes]),
                        !.hits = @ \cup hit_indices,
                        !.files_skipped = @ + Cardinality(hit_indices),
                        !.pending_hashes = [i \in (DOMAIN @) \ hit_indices |-> @[i]],
                        !.files_hashed_since_check = 0]
        s2 == CopyHits(s1, hit_trackers)
    IN MoveMisses(s2, SortedKeys(file_hashes \ hit_indices))

\* ---- stat and composite-hash intake -------------------------------------
HashResponseKinds ==
  {"hash", "legacy", "legacy_no_results", "legacy_not_generic", "legacy_missing_item"}

StoreStat(s, request, success, st_size) ==
  LET index == request.index
  IN IF ~success THEN _FileFetchFailed(s, index, request.name)
     ELSE IF index \notin DOMAIN s.pending_hashes THEN Raise(s, "KeyError")
     ELSE [s EXCEPT !.pending_hashes[index].stat_entry =
                       [st_size |-> st_size, pathspec |-> request.pathspec]]

\* Variant of the fallback that gives the file up at the first failed hash.
FailWithoutFallback(s, request) ==
  _FileFetchFailed([s EXCEPT !.pending_hashes = Pop(@, request.index)],
                   request.index, request.name)

\* Lines 375-379: the same request again under the legacy action name.
FallBackToFingerprintFile(s, request) ==
  CallClient(s, "FingerprintFile", request.index, request.pathspec, Unset, Unset, None)

\* Variant of the drop that reports the malformed response as a failure.
DropMalformedReporting(s, index) ==
  _FileFetchFailed([s EXCEPT !.pending_hashes = Pop(@, index),
                             !.dropped = (index :> Len(s.callbacks[index])) @@ @],
                   index, "HashFile")

\* Lines 399-401 and 410-412: the tracker of a malformed legacy response is
\* popped; dropped remembers how many callbacks the index had got until then.
DropMalformed(s, index) ==
  [s EXCEPT !.pending_hashes = Pop(@, index),
            !.dropped = (index :> Len(s.callbacks[index])) @@ @]

\* Variant of the count that leaves files_hashed alone.
NotCounted(s, index) == [s EXCEPT !.hashed = @ \cup {index}]

\* Line 390: every successful hash bundle is counted, before its result is
\* looked at.
CountHashed(s, index) == [s EXCEPT !.files_hashed = @ + 1, !.hashed = @ \cup {index}]

\* Variant of the threshold test that reads the outcome counter files_hashed.
FilesHashedReached(s) == s.files_hashed >= MIN_CALL_TO_FILE_STORE

\* A threshold the batcher would only pass with one hash more.
HashThresholdExceeded(s) == s.files_hashed_since_check > MIN_CALL_TO_FILE_STORE

\* Line 425: enough hashes are waiting for one file store call.
HashThresholdReached(s) == s.files_hashed_since_check >= MIN_CALL_TO_FILE_STORE

ReceiveFileHash(s, request, success, kind, sha256, bytes_read) ==
  LET index == request.index
  IN IF ~success /\ request.name = "HashFile"
     THEN FallBackToFingerprintFile(s, request)
     ELSE IF ~success
     THEN _FileFetchFailed([s EXCEPT !.pending_hashes = Pop(@, index)], index, request.name)
     ELSE
       LET s1 == CountHashed(s, index)
       IN IF kind \notin {"hash", "legacy"}
          THEN DropMalformed(s1, index)
          ELSE IF index \notin DOMAIN s1.pending_hashes
          THEN _FileFetchFailed(s1, index, request.name)
          ELSE
            LET s2 == [s1 EXCEPT !.pending_hashes[index].hash_obj = [sha256 |-> sha256],
                                 !.pending_hashes[index].bytes_read = bytes_read,
                                 !.files_hashed_since_check = @ + 1]
            IN IF HashThresholdReached(s2)
               THEN _CheckHashesWithFileStore(s2)
               ELSE s2

\* ---- block-hash intake and block-phase batcher ---------------------------
BlobsExist(blob_hashes) == [h \in blob_hashes |-> h \in BlobStore]

\* Variant of the dispatch that asks the client for every block, stored or not.
RECURSIVE TransferEveryBlock(_, _, _, _)
TransferEveryBlock(acc, file_tracker, hash_list, existing_blobs) ==
  IF hash_list = <<>> THEN acc
  ELSE
    LET hash_response == [Head(hash_list) EXCEPT !.pathspec = file_tracker.stat_entry.pathspec]
    IN TransferEveryBlock(
         [acc EXCEPT !.s = CallClient(@, "TransferBuffer", file_tracker.index,
                                      hash_response.pathspec, hash_response.offset,
                                      hash_response.length, hash_response.data)],
         file_tracker, Tail(hash_list), existing_blobs)

\* Lines 606-623 for one tracker: acc.s is the bag, acc.batch the CallState
\* bundles enqueued so far in this run.
RECURSIVE DispatchHashList(_, _, _, _)
DispatchHashList(acc, file_tracker, hash_list, existing_blobs) ==
  IF hash_list = <<>> THEN acc
  ELSE
    LET hash_response == [Head(hash_list) EXCEPT !.pathspec = file_tracker.stat_entry.pathspec]
        index == file_tracker.index
    IN IF existing_blobs[hash_response.data]
       THEN DispatchHashList(
              [acc EXCEPT !.batch = Append(@, [index |-> index, response |-> hash_response])],
              file_tracker, Tail(hash_list), existing_blobs)
       ELSE DispatchHashList(
              [acc EXCEPT !.s = CallClient(@, "TransferBuffer", index, hash_response.pathspec,
                                           hash_response.offset, hash_response.length,
                                           hash_response.data)],
              file_tracker, Tail(hash_list), existing_blobs)

RECURSIVE DispatchTrackers(_, _, _)
DispatchTrackers(acc, indices, existing_blobs) ==
  IF indices = <<>> THEN acc
  ELSE
    LET index == Head(indices)
        file_tracker == acc.s.pending_files[index]
        a1 == DispatchHashList(acc, file_tracker, file_tracker.hash_list, existing_blobs)
    IN DispatchTrackers([a1 EXCEPT !.s.pending_files[index].hash_list = <<>>],
                        Tail(indices), existing_blobs)

FetchFileContent(s) ==
  IF Failed(s) \/ DOMAIN s.pending_files = {} THEN s
  ELSE
    LET blob_hashes == UNION {{s.pending_files[i].hash_list[k].data :
                                  k \in 1..Len(s.pending_files[i].hash_list)} :
                                i \in DOMAIN s.pending_files}
        existing_blobs == BlobsExist(blob_hashes)
        s1 == [s EXCEPT !.blob_hashes_pending = 0]
        out == DispatchTrackers([s |-> s1, batch |-> <<>>],
                                SortedKeys(DOMAIN s.pending_files), existing_blobs)
    IN CallStateBatch(out.s, out.batch)

\* Variant of CheckHash that reports the failed block hash of a file whose
\* tracker is gone already.
CheckHashReportingEveryFailure(s, request, success, data) ==
  LET index == request.index
  IN IF ~success THEN _FileFetchFailed(s, index, request.name)
     ELSE IF index \notin DOMAIN s.pending_files THEN s
     ELSE
       LET hash_response == [data |-> data, offset |-> request.offset,
                             length |-> request.length, pathspec |-> request.pathspec]
           s1 == [s EXCEPT !.pending_files[index].hash_list = Append(@, hash_response),
                           !.blob_hashes_pending = @ + 1]
       IN IF s1.blob_hashes_pending > MIN_CALL_TO_FILE_STORE
          THEN FetchFileContent(s1)
          ELSE s1

CheckHash(s, request, success, data) ==
  LET index == request.index
  IN IF index \notin DOMAIN s.pending_files THEN s
     ELSE IF ~success THEN _FileFetchFailed(s, index, request.name)
     ELSE
       LET hash_response == [data |-> data, offset |-> request.offset,
                             length |-> request.length, pathspec |-> request.pathspec]
           s1 == [s EXCEPT !.pending_files[index].hash_list = Append(@, hash_response),
                           !.blob_hashes_pending = @ + 1]
       IN IF s1.blob_hashes_pending > MIN_CALL_TO_FILE_STORE
          THEN FetchFileContent(s1)
          ELSE s1

\* ---- assembler ------------------------------------------------------------
\* The blob image written by lines 657-666: the descriptors in order.
AddBlobs(blobs, download_size) ==
  [lengths |-> [k \in 1..Len(blobs) |-> blobs[k].length],
   offsets |-> [k \in 1..Len(blobs) |-> blobs[k].offset],
   size_to_download |-> download_size]

WriteBuffer(s, index, request_name, success, response) ==
  IF index \notin DOMAIN s.pending_files THEN s
  ELSE IF ~success THEN _FileFetchFailed(s, index, request_name)
  ELSE
    LET blobs == Append(s.pending_files[index].blobs,
                        [data |-> response.data, length |-> response.length,
                         offset |-> response.offset])
        s1 == [s EXCEPT !.pending_files[index].blobs = blobs]
        download_size == s1.pending_files[index].size_to_download
    IN IF response.length < CHUNK_SIZE \/ response.offset + response.length >= download_size
       THEN
         LET s2 == [s1 EXCEPT !.images = Put(@, index, AddBlobs(blobs, download_size)),
                              !.pending_files[index].blobs = <<>>]
             s3 == _ReceiveFetchedFile(s2, s2.pending_files[index])
         IN [s3 EXCEPT !.files_fetched = @ + 1]
       ELSE s1

\* ---- termination ---------------------------------------------------------
\* Variant of End that does not flush the batchers.
EndWithoutFlush(s) ==
  IF OutstandingRequests(s) = 0 THEN [s EXCEPT !.flow_status = "terminated"] ELSE s

\* Variant of End that reaches the parent End whatever is outstanding.
EndWithoutOutstandingCheck(s) ==
  LET s1 == IF DOMAIN s.pending_hashes # {} \/ DOMAIN s.pending_files # {}
            THEN FetchFileContent(_CheckHashesWithFileStore(s))
            ELSE s
  IN IF ~Failed(s1) THEN [s1 EXCEPT !.flow_status = "terminated"] ELSE s1

End(s) ==
  LET s1 == IF DOMAIN s.pending_hashes # {} \/ DOMAIN s.pending_files # {}
            THEN FetchFileContent(_CheckHashesWithFileStore(s))
            ELSE s
  IN IF ~Failed(s1) /\ OutstandingRequests(s1) = 0
     THEN [s1 EXCEPT !.flow_status = "terminated"]
     ELSE s1

\* ---- MultiGetFile.Start ---------------------------------------------------
RECURSIVE StartUnique(_, _, _)
StartUnique(s, pathspecs, unique_paths) ==
  IF pathspecs = <<>> THEN s
  ELSE
    LET pathspec == Head(pathspecs)
        vfs_urn == AFF4Path(pathspec)
    IN IF vfs_urn \notin unique_paths
       THEN StartUnique(StartFileFetch(s, pathspec, None), Tail(pathspecs),
                        unique_paths \cup {vfs_urn})
       ELSE StartUnique(s, Tail(pathspecs), unique_paths)

\* Variant of MultiGetFile.Start without the unique_paths filter.
RECURSIVE StartEvery(_, _)
StartEvery(s, pathspecs) ==
  IF pathspecs = <<>> THEN s
  ELSE StartEvery(StartFileFetch(s, Head(pathspecs), None), Tail(pathspecs))

MultiGetFileStart(s, pathspecs) == StartUnique(s, pathspecs, {})

\* ---- initial state: after MultiGetFileMixin.Start -----------------------
InitState ==
  /\ indexed_pathspecs = <<>>
  /\ request_data_list = <<>>
  /\ pending_hashes = EmptyMap
  /\ pending_files = EmptyMap
  /\ files_hashed = 0
  /\ files_to_fetch = 0
  /\ files_fetched = 0
  /\ files_skipped = 0
  /\ files_hashed_since_check = 0
  /\ blob_hashes_pending = 0
  /\ next_pathspec_to_start = 0
  /\ requests = {}
  /\ call_state = <<>>
  /\ flow_status = "running"
  /\ entry = [mode |-> "none", pathspecs |-> <<>>]
  /\ fetch_log = <<>>
  /\ callbacks = EmptyMap
  /\ rpc_log = EmptyMap
  /\ hashed = {}
  /\ hits = {}
  /\ copies = {}
  /\ images = EmptyMap
  /\ check_hashes_calls = 0
  /\ removals = EmptyMap
  /\ checks = <<>>
  /\ dropped = EmptyMap

InitFlow ==
  /\ InitState
  /\ maximum_pending_files \in 1..MaxPending

\* The workload: how many files the caller submits under which pathspecs, and
\* the sizes the agent reports.  A window wider than the number of files
\* behaves like one as wide as it.
Workload(files, pathspecs, st_sizes, bytes_read) ==
  /\ workload = [files |-> files, pathspecs |-> pathspecs,
                 st_sizes |-> st_sizes, bytes_read |-> bytes_read]
  /\ maximum_pending_files <= files

\* Several empty files under any pathspecs.
Init ==
  /\ InitFlow
  /\ Workload(MaxFiles, PathSpecs, {0}, {0})

\* Files of several sizes, with bytes_read below, equal to or above st_size.
InitBlocks ==
  /\ InitFlow
  /\ Workload(MaxBlockFiles, {"p1"}, {0, MaxSize}, {0, 1})

\* More files than the admission window is wide.
InitWindow ==
  /\ InitFlow
  /\ Workload(MaxWindowFiles, {"p1"}, {0}, {0})

\* One file more than MIN_CALL_TO_FILE_STORE, under a window that admits all.
InitBatch ==
  /\ InitState
  /\ maximum_pending_files = MIN_CALL_TO_FILE_STORE + 1
  /\ Workload(MIN_CALL_TO_FILE_STORE + 1, {"p1"}, {0}, {0})

\* Several files whose hash responses may report the number of bytes read.
InitBytesRead ==
  /\ InitFlow
  /\ Workload(MaxFiles, {"p1"}, {0}, {0, 1})

\* ---- entry points -------------------------------------------------------
CallStartFileFetch ==
  /\ flow_status = "running"
  /\ entry.mode \in {"none", "mixin"}
  /\ Len(indexed_pathspecs) < workload.files
  /\ \E pathspec \in workload.pathspecs \cap
                        NextPathSpecs({fetch_log[k].pathspec : k \in 1..Len(fetch_log)}) :
       Commit(StartFileFetch(Bag, pathspec, RequestData[Len(indexed_pathspecs) + 1]))
  /\ entry' = [mode |-> "mixin", pathspecs |-> <<>>]
  /\ UNCHANGED workload

RunMultiGetFileStart ==
  /\ flow_status = "running"
  /\ entry.mode = "none"
  /\ \E n \in 1..workload.files : \E pathspecs \in [1..n -> workload.pathspecs] :
       /\ Commit(MultiGetFileStart(Bag, pathspecs))
       /\ entry' = [mode |-> "MultiGetFile", pathspecs |-> pathspecs]
  /\ UNCHANGED workload

\* ---- the runtime delivers one response bundle ---------------------------
DispatchStoreStat ==
  /\ flow_status = "running"
  /\ \E request \in requests :
       /\ request.name = "StatFile"
       /\ \E success \in BOOLEAN :
            \E st_size \in (IF success THEN workload.st_sizes ELSE {Unset}) :
              Commit(StoreStat([Bag EXCEPT !.requests = @ \ {request}],
                               request, success, st_size))
  /\ UNCHANGED <<entry, workload>>

DispatchReceiveFileHash ==
  /\ flow_status = "running"
  /\ \E request \in requests :
       /\ request.name \in {"HashFile", "FingerprintFile"}
       /\ \/ Commit(ReceiveFileHash([Bag EXCEPT !.requests = @ \ {request}],
                                    request, FALSE, None, None, Unset))
          \/ \E kind \in HashResponseKinds, sha256 \in FileDigests, bytes_read \in workload.bytes_read :
               Commit(ReceiveFileHash([Bag EXCEPT !.requests = @ \ {request}],
                                      request, TRUE, kind, sha256, bytes_read))
  /\ UNCHANGED <<entry, workload>>

DispatchCheckHash ==
  /\ flow_status = "running"
  /\ \E request \in requests :
       /\ request.name = "HashBuffer"
       /\ \/ Commit(CheckHash([Bag EXCEPT !.requests = @ \ {request}], request, FALSE, None))
          \/ \E data \in BlockDigests :
               Commit(CheckHash([Bag EXCEPT !.requests = @ \ {request}], request, TRUE, data))
  /\ UNCHANGED <<entry, workload>>

DispatchWriteBufferTransfer ==
  /\ flow_status = "running"
  /\ \E request \in requests :
       /\ request.name = "TransferBuffer"
       /\ \E success \in BOOLEAN :
            Commit(WriteBuffer([Bag EXCEPT !.requests = @ \ {request}],
                               request.index, request.name, success,
                               [data |-> request.data, offset |-> request.offset,
                                length |-> request.length, pathspec |-> request.pathspec]))
  /\ UNCHANGED <<entry, workload>>

DispatchWriteBufferCallState ==
  /\ flow_status = "running"
  /\ \E b \in 1..Len(call_state) :
       LET bundle == Head(call_state[b])
           rest == IF Len(call_state[b]) = 1
                   THEN [k \in 1..(Len(call_state) - 1) |->
                           IF k < b THEN call_state[k] ELSE call_state[k + 1]]
                   ELSE [call_state EXCEPT ![b] = Tail(@)]
       IN Commit(WriteBuffer([Bag EXCEPT !.call_state = rest],
                             bundle.index, "CallState", TRUE, bundle.response))
  /\ UNCHANGED <<entry, workload>>

DispatchEnd ==
  /\ flow_status = "running"
  /\ entry.mode # "none"
  /\ OutstandingRequests(Bag) = 0
  /\ Commit(End(Bag))
  /\ UNCHANGED <<entry, workload>>

Next ==
  \/ CallStartFileFetch
  \/ RunMultiGetFileStart
  \/ DispatchStoreStat
  \/ DispatchReceiveFileHash
  \/ DispatchCheckHash
  \/ DispatchWriteBufferTransfer
  \/ DispatchWriteBufferCallState
  \/ DispatchEnd

Spec == Init /\ [][Next]_vars

SpecBlocks == InitBlocks /\ [][Next]_vars

SpecWindow == InitWindow /\ [][Next]_vars

SpecBatch == InitBatch /\ [][Next]_vars

SpecBytesRead == InitBytesRead /\ [][Next]_vars

\* ---- observations used by the properties --------------------------------
Indices == 0..(Len(fetch_log) - 1)

Calls(index, kind) ==
  Cardinality({k \in 1..Len(callbacks[index]) : callbacks[index][k].kind = kind})

Issued(index, name) ==
  Cardinality({k \in 1..Len(rpc_log[index]) : rpc_log[index][k].name = name})

\* C1: between dispatches, len(pending_hashes) <= maximum_pending_files and
\* len(pending_files) <= maximum_pending_files.
C1_PendingWithinWindow ==
  flow_status = "running" =>
    /\ Cardinality(DOMAIN pending_hashes) <= maximum_pending_files
    /\ Cardinality(DOMAIN pending_files) <= maximum_pending_files
Live == flow_status \in {"running", "terminated"}

Materialized == copies \cup DOMAIN images

\* C2: ReceiveFetchedFile is invoked exactly once for an index whose file was
\* materialized (copied from the file-hash index or assembled from blocks),
\* never for another index, and no index gets both callbacks.
C2_ReceivedOnceIffMaterialized ==
  \A i \in Indices :
    /\ Calls(i, "ReceiveFetchedFile") = (IF i \in Materialized THEN 1 ELSE 0)
    /\ ~(Calls(i, "ReceiveFetchedFile") > 0 /\ Calls(i, "FileFetchFailed") > 0)

C2_Witness ==
  \E i \in DOMAIN images :
    /\ Len(images[i].lengths) > 1
    /\ Calls(i, "ReceiveFetchedFile") = 1
    /\ images[i].size_to_download > 0

\* C3: FileFetchFailed is invoked at most once per index, whatever bundles
\* (StoreStat, ReceiveFileHash, CheckHash, WriteBuffer) arrive for it.
C3_FailureReportedAtMostOnce ==
  \A i \in Indices : Calls(i, "FileFetchFailed") <= 1

\* C4: every callback carries the request_data passed to the StartFileFetch
\* call of its index, and FileFetchFailed carries that call's pathspec, never
\* a cleared one.
C4_CallbacksCarryCallerValues ==
  \A i \in Indices : \A k \in 1..Len(callbacks[i]) :
    /\ callbacks[i][k].request_data = fetch_log[i + 1].request_data
    /\ callbacks[i][k].kind = "FileFetchFailed" =>
         /\ callbacks[i][k].pathspec = fetch_log[i + 1].pathspec
         /\ callbacks[i][k].pathspec # None

\* C5: when the flow terminates no queued pathspec is left unstarted and both
\* pending maps are empty.
C5_AllAdmittedAtTermination ==
  flow_status = "terminated" =>
    /\ next_pathspec_to_start = Len(indexed_pathspecs)
    /\ DOMAIN pending_hashes = {}
    /\ DOMAIN pending_files = {}

FailedFiles == {i \in Indices : Calls(i, "FileFetchFailed") > 0}

\* C6 as stated: at termination files_hashed = files_fetched + files_skipped +
\* the number of files for which a failure was reported.
C6_HashedEqualsOutcomes ==
  flow_status = "terminated" =>
    files_hashed = files_fetched + files_skipped + Cardinality(FailedFiles)

\* C6 amended: at termination files_hashed = files_fetched + files_skipped +
\* the number of files whose composite-hash bundle succeeded and that were not
\* materialized (reported failed afterwards or dropped silently).
C6_HashedEqualsOutcomesOfHashedFiles ==
  flow_status = "terminated" =>
    files_hashed = files_fetched + files_skipped
                   + Cardinality({i \in hashed : Calls(i, "ReceiveFetchedFile") = 0})

C6_Witness ==
  /\ flow_status = "terminated"
  /\ files_fetched > 0
  /\ \E i \in hashed : Calls(i, "ReceiveFetchedFile") = 0

\* C7: the lengths of the blob descriptors of a completed blob image sum to
\* the file's size_to_download.
C7_ImageLengthsSumToSize ==
  \A i \in DOMAIN images :
    SumLengths([k \in 1..Len(images[i].lengths) |-> [length |-> images[i].lengths[k]]])
      = images[i].size_to_download

\* C8: the blob descriptors of every tracker, pending or written to its blob
\* image, are in issue order of the HashBuffer requests: offsets 0,
\* CHUNK_SIZE, 2*CHUNK_SIZE, ...
C8_BlobsInIssueOrder ==
  /\ \A i \in DOMAIN pending_files :
       \A k \in 1..Len(pending_files[i].blobs) :
         pending_files[i].blobs[k].offset = (k - 1) * CHUNK_SIZE
  /\ \A i \in DOMAIN images :
       \A k \in 1..Len(images[i].offsets) :
         images[i].offsets[k] = (k - 1) * CHUNK_SIZE

\* First-occurrence order of the distinct pathspecs of a sequence.
FirstAt(seq, x) == CHOOSE k \in 1..Len(seq) : seq[k] = x /\ \A j \in 1..(k - 1) : seq[j] # x

IsFirstOccurrences(started, given) ==
  /\ {started[k] : k \in 1..Len(started)} = {given[k] : k \in 1..Len(given)}
  /\ \A j, k \in 1..Len(started) :
       j < k => FirstAt(given, started[j]) < FirstAt(given, started[k])

StartedPathspecs == [k \in 1..Len(fetch_log) |-> fetch_log[k].pathspec]

\* No file failed, was dropped or is still waiting.
NoFailures ==
  /\ FailedFiles = {}
  /\ files_hashed = Len(fetch_log)
  /\ files_hashed = files_skipped + files_to_fetch

\* C9: StartFileFetch called directly tracks every call under its own index,
\* the same pathspec included, and absent failures each gets its
\* ReceiveFetchedFile; MultiGetFile.Start calls StartFileFetch once per
\* distinct pathspec, in order of first occurrence, so a pathspec gets at most
\* one ReceiveFetchedFile and absent failures exactly one.
C9_DuplicatePathspecs ==
  /\ entry.mode = "MultiGetFile" =>
       /\ IsFirstOccurrences(StartedPathspecs, entry.pathspecs)
       /\ \A p \in PathSpecs :
            Cardinality({i \in Indices : /\ fetch_log[i + 1].pathspec = p
                                         /\ Calls(i, "ReceiveFetchedFile") > 0}) <= 1
  /\ (flow_status = "terminated" /\ NoFailures) =>
       \A i \in Indices : Calls(i, "ReceiveFetchedFile") = 1

C9_Witness ==
  /\ entry.mode = "mixin"
  /\ flow_status = "terminated"
  /\ NoFailures
  /\ \E i, j \in Indices :
       /\ i # j
       /\ fetch_log[i + 1].pathspec = fetch_log[j + 1].pathspec
       /\ Calls(i, "ReceiveFetchedFile") = 1
       /\ Calls(j, "ReceiveFetchedFile") = 1

\* C10: a file the file-hash index reports present gets no HashBuffer and no
\* TransferBuffer request, leaves pending_hashes without entering
\* pending_files, counts once in files_skipped and gets one ReceiveFetchedFile.
C10_HitSkipsDownload ==
  /\ files_skipped = Cardinality(hits)
  /\ \A i \in hits :
       /\ Issued(i, "HashBuffer") = 0
       /\ Issued(i, "TransferBuffer") = 0
       /\ i \notin DOMAIN pending_hashes
       /\ i \notin DOMAIN pending_files
       /\ Calls(i, "ReceiveFetchedFile") = 1
\* A step moves trackers forward only: into pending_hashes on admission, into
\* pending_files from pending_hashes.
MovesForward ==
  /\ \A i \in DOMAIN pending_files' \ DOMAIN pending_files : i \in DOMAIN pending_hashes
  /\ \A j \in DOMAIN pending_hashes' \ DOMAIN pending_hashes : j >= next_pathspec_to_start

\* C11: no index is a key of both pending_hashes and pending_files; an index
\* enters pending_files only from pending_hashes, and once it has left
\* pending_hashes it never returns there (so it moves at most once, never back).
C11_OneMapAtATime ==
  /\ [](DOMAIN pending_hashes \cap DOMAIN pending_files = {})
  /\ [][MovesForward]_vars

C11_Witness ==
  /\ flow_status = "running"
  /\ \E i \in DOMAIN pending_files : \E j \in DOMAIN pending_hashes :
       /\ i < j
       /\ pending_hashes[j].hash_obj # NoHash
       /\ pending_files[i].hash_list # <<>>
\* C12: the flow is terminated only in a state where the runtime has no
\* outstanding request, and then pending_hashes and pending_files are empty.
C12_TerminatesQuiescent ==
  flow_status = "terminated" =>
    /\ OutstandingRequests(Bag) = 0
    /\ DOMAIN pending_hashes = {}
    /\ DOMAIN pending_files = {}

C12_Witness ==
  /\ flow_status = "terminated"
  /\ files_fetched > 0
  /\ files_skipped > 0
HashBufferRequests(index) ==
  {k \in 1..Len(rpc_log[index]) : rpc_log[index][k].name = "HashBuffer"}

\* C13: a file that missed the file-hash index with size_to_download 0 gets
\* exactly one HashBuffer request, at offset 0 with length 0; it stays pending
\* only until that block's WriteBuffer bundle arrives, and then has a blob
\* image of total length 0 and one ReceiveFetchedFile call.
C13_EmptyFileCompletes ==
  /\ \A i \in DOMAIN pending_files :
       pending_files[i].size_to_download = 0 =>
         /\ Cardinality(HashBufferRequests(i)) = 1
         /\ \A k \in HashBufferRequests(i) :
              rpc_log[i][k].offset = 0 /\ rpc_log[i][k].length = 0
         /\ pending_files[i].blobs = <<>>
  /\ \A i \in DOMAIN images :
       images[i].size_to_download = 0 =>
         /\ Cardinality(HashBufferRequests(i)) = 1
         /\ \A k \in HashBufferRequests(i) :
              rpc_log[i][k].offset = 0 /\ rpc_log[i][k].length = 0
         /\ images[i].lengths = <<0>>
         /\ Calls(i, "ReceiveFetchedFile") = 1
         /\ i \notin DOMAIN pending_files

C13_Witness ==
  \E i \in DOMAIN images :
    /\ images[i].size_to_download = 0
    /\ Issued(i, "TransferBuffer") = 1
    /\ Calls(i, "ReceiveFetchedFile") = 1
Admitted == 0..(next_pathspec_to_start - 1)

\* C14: _RemoveCompletedPathspec (and with it the admission attempt) runs at
\* most once for an index, and exactly once for every admitted index by the
\* time the flow terminates.
C14_OneAdmissionAttemptPerIndex ==
  /\ \A i \in Indices : removals[i] <= 1
  /\ flow_status = "terminated" => \A i \in Admitted : removals[i] = 1
\* Block hashes received by CheckHash and not yet dispatched to WriteBuffer.
QueuedBlockHashes ==
  UNION {{<<i, k>> : k \in 1..Len(pending_files[i].hash_list)} : i \in DOMAIN pending_files}

\* Bundles on their way to WriteBuffer.
WriteBufferBundles ==
  Cardinality({r \in requests : r.name = "TransferBuffer"}) + Queued(call_state)

\* What an End dispatched with nothing outstanding leaves behind.
EndFlushes ==
  DispatchEnd =>
    /\ \A i \in DOMAIN pending_hashes' :
         ~(pending_hashes'[i].stat_entry # NoStatEntry /\ pending_hashes'[i].hash_obj # NoHash)
    /\ \A i \in DOMAIN pending_files' : pending_files'[i].hash_list = <<>>
    /\ WriteBufferBundles' = Cardinality(QueuedBlockHashes)

\* C15: when no response is outstanding, the next End flushes the hash-phase
\* batcher and then the block-phase batcher, however few hashes have
\* accumulated: afterwards no tracker holding a stat entry and a composite
\* hash is left in pending_hashes and every queued block hash has been
\* dispatched to WriteBuffer.
C15_EndFlushesBothBatchers == [][EndFlushes]_vars

C15_Witness ==
  /\ flow_status = "running"
  /\ files_hashed < MIN_CALL_TO_FILE_STORE
  /\ Len(checks) = 1
  /\ blob_hashes_pending = 0
  /\ WriteBufferBundles = 1
\* The files of a batch one larger than MIN_CALL_TO_FILE_STORE.
BatchIndices == 0..MIN_CALL_TO_FILE_STORE

\* All files of the batch were tracked in pending_hashes when the file store
\* was first asked, every one of them got its composite hash, none was found
\* in the file-hash index and the flow ran to its end.
BatchAdmittedAtOnceAllMiss ==
  /\ flow_status = "terminated"
  /\ Len(checks) >= 1
  /\ checks[1].pending = BatchIndices
  /\ hashed = BatchIndices
  /\ hits = {}
  /\ \A i \in BatchIndices : Issued(i, "HashBuffer") > 0

\* C16 as stated: when more pathspecs than MIN_CALL_TO_FILE_STORE are
\* admitted at once and all miss the file-hash index, exactly one CheckHashes
\* call is made and it sees the composite hashes of all of them.
C16_OneCheckSeesAll ==
  BatchAdmittedAtOnceAllMiss =>
    /\ Len(checks) = 1
    /\ checks[1].hashes = BatchIndices

\* C16 amended: no CheckHashes call sees more than MIN_CALL_TO_FILE_STORE
\* composite hashes; when MIN_CALL_TO_FILE_STORE + 1 pathspecs are admitted
\* at once and all miss, the first call is made at the
\* MIN_CALL_TO_FILE_STORE-th hash and sees exactly that many, the remaining
\* hash is seen by a second call, and every tracker went on to pending_files
\* (each got its HashBuffer request).
C16_CheckSeesAtMostThreshold ==
  /\ \A k \in 1..Len(checks) : Cardinality(checks[k].hashes) <= MIN_CALL_TO_FILE_STORE
  /\ BatchAdmittedAtOnceAllMiss =>
       /\ Len(checks) = 2
       /\ Cardinality(checks[1].hashes) = MIN_CALL_TO_FILE_STORE
       /\ checks[2].hashes = BatchIndices \ checks[1].hashes

C16_Witness ==
  /\ BatchAdmittedAtOnceAllMiss
  /\ files_fetched = MIN_CALL_TO_FILE_STORE + 1

\* The runtime delivers the failed bundle of a composite-hash request.
FailedHashBundle(request) ==
  /\ flow_status = "running"
  /\ request \notin requests'
  /\ Commit(ReceiveFileHash([Bag EXCEPT !.requests = @ \ {request}],
                            request, FALSE, None, None, Unset))

FallbackRequest(request) == [request EXCEPT !.name = "FingerprintFile"]

FailedHashFileFallsBack ==
  \A request \in requests :
    /\ (request.name = "HashFile" /\ FailedHashBundle(request)) =>
         /\ FallbackRequest(request) \notin requests
         /\ requests' = (requests \ {request}) \cup {FallbackRequest(request)}
         /\ rpc_log' = [rpc_log EXCEPT ![request.index] =
                          Append(@, [name |-> "FingerprintFile", offset |-> request.offset,
                                     length |-> request.length])]
         /\ UNCHANGED <<pending_hashes, pending_files, indexed_pathspecs, request_data_list,
                        next_pathspec_to_start, files_hashed, files_to_fetch, files_fetched,
                        files_skipped, files_hashed_since_check, blob_hashes_pending,
                        callbacks, call_state, flow_status>>
    /\ (request.name = "FingerprintFile" /\ FailedHashBundle(request)) =>
         /\ request.index \notin DOMAIN pending_hashes'
         /\ Len(callbacks'[request.index]) = Len(callbacks[request.index]) + 1
         /\ LET reported == callbacks'[request.index][Len(callbacks'[request.index])]
            IN reported.kind = "FileFetchFailed" /\ reported.name = "FingerprintFile"
         /\ \A i \in Indices \ {request.index} : callbacks'[i] = callbacks[i]

\* C17: the failed bundle of a HashFile request makes the handler issue
\* exactly one FingerprintFile request with the same pathspec and
\* request_data (the index) and change no tracker, map, counter or callback
\* record; no index ever gets more than one FingerprintFile request; the
\* failed bundle of a FingerprintFile request removes the tracker and reports
\* one FileFetchFailed with the name FingerprintFile.
C17_OneShotFallback ==
  /\ [](\A i \in Indices : Issued(i, "FingerprintFile") <= 1)
  /\ [][FailedHashFileFallsBack]_vars

C17_Witness ==
  \E i \in Indices :
    /\ Issued(i, "HashFile") = 1
    /\ Issued(i, "FingerprintFile") = 1
    /\ Calls(i, "FileFetchFailed") = 1
    /\ callbacks[i][1].name = "FingerprintFile"
    /\ callbacks[i][1].pathspec = fetch_log[i + 1].pathspec
    /\ i \notin DOMAIN pending_hashes

\* A block-hash or block-transfer failure was reported for the index.
BlockFailed(index) ==
  \E k \in 1..Len(callbacks[index]) :
    /\ callbacks[index][k].kind = "FileFetchFailed"
    /\ callbacks[index][k].name \in {"HashBuffer", "TransferBuffer", "CallState"}

FlowStateUnchanged ==
  UNCHANGED <<pending_hashes, pending_files, indexed_pathspecs, request_data_list,
              next_pathspec_to_start, files_hashed, files_to_fetch, files_fetched,
              files_skipped, files_hashed_since_check, blob_hashes_pending,
              maximum_pending_files, callbacks, rpc_log, flow_status>>

\* The step delivers the bundle of the given block request, failed or not.
CheckHashBundle(request) ==
  \E success \in BOOLEAN : \E data \in (IF success THEN BlockDigests ELSE {None}) :
    Commit(CheckHash([Bag EXCEPT !.requests = @ \ {request}], request, success, data))

WriteBufferBundle(request) ==
  \E success \in BOOLEAN :
    Commit(WriteBuffer([Bag EXCEPT !.requests = @ \ {request}],
                       request.index, request.name, success,
                       [data |-> request.data, offset |-> request.offset,
                        length |-> request.length, pathspec |-> request.pathspec]))

LateBlockBundlesDropped ==
  /\ \A request \in requests :
       ( /\ flow_status = "running"
         /\ request \notin requests'
         /\ BlockFailed(request.index)
         /\ \/ request.name = "HashBuffer" /\ CheckHashBundle(request)
            \/ request.name = "TransferBuffer" /\ WriteBufferBundle(request) ) =>
         /\ FlowStateUnchanged
         /\ requests' = requests \ {request}
         /\ call_state' = call_state
  /\ ( /\ flow_status = "running"
       /\ Queued(call_state') < Queued(call_state)
       /\ DispatchWriteBufferCallState
       /\ \A b \in 1..Len(call_state) : BlockFailed(Head(call_state[b]).index) ) =>
       /\ FlowStateUnchanged
       /\ requests' = requests

\* C18: once a block-hash or block-transfer failure was reported for an
\* index, the delivery of any later CheckHash or WriteBuffer bundle of that
\* index changes neither pending map, neither list, no counter, issues no
\* request and invokes no callback: only the delivered bundle is gone.
C18_LateBundlesDropped == [][LateBlockBundlesDropped]_vars

C18_Witness ==
  \E i \in Indices :
    /\ flow_status = "running"
    /\ Issued(i, "HashBuffer") = 3
    /\ Calls(i, "FileFetchFailed") = 1
    /\ callbacks[i][1].name = "HashBuffer"
    /\ requests = {}
    /\ blob_hashes_pending = 0

\* C19: an index whose successful hash bundle carried a malformed legacy
\* result is gone from pending_hashes and gets no callback, neither
\* FileFetchFailed nor ReceiveFetchedFile, in the dispatch that dropped it or
\* in any later one: it has as many callbacks as it had when it was dropped.
C19_MalformedDropIsSilent ==
  \A i \in DOMAIN dropped :
    /\ i \notin DOMAIN pending_hashes
    /\ Len(callbacks[i]) = dropped[i]

DropDispatchIsSilent == (DOMAIN dropped' # DOMAIN dropped) => callbacks' = callbacks

\* C19 amended: the dispatch that drops an index for a malformed legacy
\* result invokes no callback; the index is in neither pending map and never
\* gets ReceiveFetchedFile; the only callback it can get afterwards is one
\* FileFetchFailed named StatFile, made when its StatFile bundle arrives
\* failed after the drop.
C19_MalformedDropReportsOnlyStatFailure ==
  /\ [](\A i \in DOMAIN dropped :
          /\ i \notin DOMAIN pending_hashes \cup DOMAIN pending_files
          /\ Calls(i, "ReceiveFetchedFile") = 0
          /\ Len(callbacks[i]) <= dropped[i] + 1
          /\ \A k \in (dropped[i] + 1)..Len(callbacks[i]) :
               /\ callbacks[i][k].kind = "FileFetchFailed"
               /\ callbacks[i][k].name = "StatFile")
  /\ [][DropDispatchIsSilent]_vars

C19_Witness ==
  \E i \in DOMAIN dropped :
    /\ dropped[i] = 0
    /\ Len(callbacks[i]) = 1
    /\ callbacks[i][1].name = "StatFile"
    /\ flow_status = "terminated"

\* The failure events: the step delivers the failed bundle of a request, or
\* a successful hash bundle with a malformed legacy result.
StatFailure(request) ==
  /\ request.name = "StatFile"
  /\ request \notin requests'
  /\ Commit(StoreStat([Bag EXCEPT !.requests = @ \ {request}], request, FALSE, Unset))

HashFailure(request) ==
  /\ request.name \in {"HashFile", "FingerprintFile"}
  /\ FailedHashBundle(request)

MalformedLegacyHash(request) ==
  /\ request.name \in {"HashFile", "FingerprintFile"}
  /\ request \notin requests'
  /\ \E kind \in HashResponseKinds \ {"hash", "legacy"}, sha256 \in FileDigests,
        bytes_read \in workload.bytes_read :
       Commit(ReceiveFileHash([Bag EXCEPT !.requests = @ \ {request}],
                              request, TRUE, kind, sha256, bytes_read))

BlockHashFailure(request) ==
  /\ request.name = "HashBuffer"
  /\ request \notin requests'
  /\ Commit(CheckHash([Bag EXCEPT !.requests = @ \ {request}], request, FALSE, None))

BlockTransferFailure(request) ==
  /\ request.name = "TransferBuffer"
  /\ request \notin requests'
  /\ Commit(WriteBuffer([Bag EXCEPT !.requests = @ \ {request}],
                        request.index, request.name, FALSE,
                        [data |-> request.data, offset |-> request.offset,
                         length |-> request.length, pathspec |-> request.pathspec]))

ReportedFailure(request) ==
  \/ StatFailure(request)
  \/ HashFailure(request)
  \/ BlockHashFailure(request)
  \/ BlockTransferFailure(request)

SkippedOnlyOnHit == files_skipped' # files_skipped => hits' # hits

FetchedOnlyOnCompletion == files_fetched' # files_fetched => DOMAIN images' # DOMAIN images

FailuresLeaveCounters ==
  /\ \A request \in requests :
       (flow_status = "running" /\ (ReportedFailure(request) \/ MalformedLegacyHash(request))) =>
         UNCHANGED <<files_hashed, files_to_fetch, files_fetched, files_skipped>>
  /\ SkippedOnlyOnHit
  /\ FetchedOnlyOnCompletion

FailuresLeaveOutcomeCounters ==
  /\ \A request \in requests :
       /\ (flow_status = "running" /\ ReportedFailure(request)) =>
            UNCHANGED <<files_hashed, files_to_fetch, files_fetched, files_skipped>>
       /\ (flow_status = "running" /\ MalformedLegacyHash(request)) =>
            /\ files_hashed' = files_hashed + 1
            /\ UNCHANGED <<files_to_fetch, files_fetched, files_skipped>>
  /\ SkippedOnlyOnHit
  /\ FetchedOnlyOnCompletion

HashBufferPlan(index) ==
  [k \in 1..Cardinality(HashBufferRequests(index)) |->
     rpc_log[index][SortedKeys(HashBufferRequests(index))[k]]]

\* The plan the block phase is to issue for a file of the given size.
IsBlockPlanOf(plan, size) ==
  /\ Len(plan) = (size \div CHUNK_SIZE) + 1
  /\ \A k \in 1..Len(plan) :
       /\ plan[k].offset = (k - 1) * CHUNK_SIZE
       /\ plan[k].length = (IF k = Len(plan) THEN size % CHUNK_SIZE ELSE CHUNK_SIZE)
       /\ k > 1 => plan[k].offset = plan[k - 1].offset + plan[k - 1].length
  /\ SumLengths(plan) = size

\* C21: every tracker moved to pending_files with size_to_download = S got
\* S \div CHUNK_SIZE + 1 HashBuffer requests under its index, the i-th at
\* offset i * CHUNK_SIZE, of length CHUNK_SIZE except the last of length
\* S % CHUNK_SIZE; the spans are contiguous and their lengths sum to S.
C21_BlockPlanCoversFile ==
  /\ \A i \in DOMAIN pending_files :
       pending_files[i].size_to_download # Unset =>
         IsBlockPlanOf(HashBufferPlan(i), pending_files[i].size_to_download)
  /\ \A i \in DOMAIN images :
       IsBlockPlanOf(HashBufferPlan(i), images[i].size_to_download)

SizeToDownloadSet ==
  \A i \in DOMAIN pending_files :
    /\ pending_files[i].size_to_download # Unset
    /\ pending_files[i].size_to_download =
         (IF pending_files[i].bytes_read > 0 THEN pending_files[i].bytes_read
          ELSE pending_files[i].stat_entry.st_size)

SizeToDownloadFrozen ==
  \A i \in DOMAIN pending_files \cap DOMAIN pending_files' :
    pending_files'[i].size_to_download = pending_files[i].size_to_download

\* C22: every tracker in pending_files has size_to_download set, to its
\* bytes_read if that is positive and to its stat st_size otherwise, and the
\* value does not change while the tracker is in pending_files.
C22_SizeToDownloadFrozen ==
  /\ []SizeToDownloadSet
  /\ [][SizeToDownloadFrozen]_vars

\* Indices below next_pathspec_to_start, and only those, were admitted, each
\* once and for the pathspec of its StartFileFetch call.
AdmittedInCallOrder ==
  /\ next_pathspec_to_start <= Len(indexed_pathspecs)
  /\ Len(indexed_pathspecs) = Len(fetch_log)
  /\ \A i \in Indices :
       /\ Issued(i, "StatFile") = (IF i < next_pathspec_to_start THEN 1 ELSE 0)
       /\ Issued(i, "HashFile") = Issued(i, "StatFile")
       /\ indexed_pathspecs[i + 1] \in {fetch_log[i + 1].pathspec, None}
  /\ \A request \in requests :
       request.pathspec = fetch_log[request.index + 1].pathspec

IndexAssignmentMonotonic ==
  /\ next_pathspec_to_start' >= next_pathspec_to_start
  /\ Len(indexed_pathspecs') >= Len(indexed_pathspecs)
  /\ \A k \in 1..Len(indexed_pathspecs) :
       indexed_pathspecs'[k] \in {indexed_pathspecs[k], None}
  /\ DOMAIN pending_hashes' \ DOMAIN pending_hashes =
       next_pathspec_to_start..(next_pathspec_to_start' - 1)

\* C23: indices are assigned in StartFileFetch call order and admitted in
\* that order: next_pathspec_to_start never decreases and never exceeds
\* len(indexed_pathspecs); an index is admitted (tracker in pending_hashes,
\* StatFile and HashFile issued) at most once, the admitted indices being
\* those below next_pathspec_to_start; a slot keeps the pathspec of its call
\* until it is cleared and is never given another one.
C23_IndicesAdmittedInOrder ==
  /\ []AdmittedInCallOrder
  /\ [][IndexAssignmentMonotonic]_vars

C23_Witness ==
  /\ maximum_pending_files = 1
  /\ next_pathspec_to_start = 2
  /\ Len(indexed_pathspecs) = 2
  /\ indexed_pathspecs[1] = None
  /\ 1 \in DOMAIN pending_hashes
  /\ Calls(0, "ReceiveFetchedFile") = 1

\* What a step hands to WriteBuffer for an index: the TransferBuffer requests
\* it issues and the CallState bundles it enqueues (always one new batch, at
\* the end of the queue).
NewTransfers(index) ==
  {r \in requests' \ requests : r.name = "TransferBuffer" /\ r.index = index}

NewBatch ==
  IF Queued(call_state') > Queued(call_state) THEN call_state'[Len(call_state')] ELSE <<>>

NewCallStates(index) == {k \in 1..Len(NewBatch) : NewBatch[k].index = index}

TransferOffsets(index) == {r.offset : r \in NewTransfers(index)}

CallStateOffsets(index) == {NewBatch[k].response.offset : k \in NewCallStates(index)}

DispatchedOffsets(index) == TransferOffsets(index) \cup CallStateOffsets(index)

\* The block hashes accepted for a tracker and not dispatched yet.
WaitingOffsets(index) ==
  {pending_files[index].hash_list[k].offset : k \in 1..Len(pending_files[index].hash_list)}

\* The block hash the step itself accepts, if any.
DeliveredHashOffsets(index) ==
  {r.offset : r \in {q \in requests \ requests' : q.name = "HashBuffer" /\ q.index = index}}

IsPrefix(a, b) == Len(a) <= Len(b) /\ \A k \in 1..Len(a) : b[k] = a[k]

\* A step dispatches through one channel, chosen by the blob store, each
\* block once, and only blocks that were waiting or are accepted by it.
DispatchedThroughOneChannel ==
  \A i \in Indices :
    /\ TransferOffsets(i) \cap CallStateOffsets(i) = {}
    /\ Cardinality(NewTransfers(i)) = Cardinality(TransferOffsets(i))
    /\ Cardinality(NewCallStates(i)) = Cardinality(CallStateOffsets(i))
    /\ \A r \in NewTransfers(i) : r.data \notin BlobStore
    /\ \A k \in NewCallStates(i) : NewBatch[k].response.data \in BlobStore
    /\ IF i \in DOMAIN pending_files
       THEN DispatchedOffsets(i) \subseteq WaitingOffsets(i) \cup DeliveredHashOffsets(i)
       ELSE DispatchedOffsets(i) = {}

StillWaiting(i) ==
  /\ i \in DOMAIN pending_files'
  /\ IsPrefix(pending_files[i].hash_list, pending_files'[i].hash_list)
  /\ DispatchedOffsets(i) = {}

Flushed(i) ==
  /\ i \in DOMAIN pending_files'
  /\ pending_files'[i].hash_list = <<>>
  /\ WaitingOffsets(i) \subseteq DispatchedOffsets(i)

FlushIsComplete ==
  (\E i \in Indices : DispatchedOffsets(i) # {}) =>
    /\ blob_hashes_pending' = 0
    /\ \A i \in DOMAIN pending_files' : pending_files'[i].hash_list = <<>>

AcceptedIsDispatched ==
  /\ DispatchedThroughOneChannel
  /\ \A i \in DOMAIN pending_files :
       pending_files[i].hash_list # <<>> => StillWaiting(i) \/ Flushed(i)
  /\ FlushIsComplete

\* C24 as stated: every block-hash response accepted by CheckHash is handed
\* to WriteBuffer exactly once by FetchFileContent, by CallState when the
\* blob store has its digest and by a TransferBuffer request otherwise,
\* never both and never again; after the flush every hash_list is empty and
\* blob_hashes_pending is 0.
C24_AcceptedDispatchedOnce == [][AcceptedIsDispatched]_vars

\* The tracker leaves pending_files with block hashes still waiting: they are
\* handed to nobody.
Abandoned(i) ==
  /\ i \notin DOMAIN pending_files'
  /\ DispatchedOffsets(i) = {}

AcceptedIsDispatchedOrAbandoned ==
  /\ DispatchedThroughOneChannel
  /\ \A i \in DOMAIN pending_files :
       pending_files[i].hash_list # <<>> => StillWaiting(i) \/ Flushed(i) \/ Abandoned(i)
  /\ FlushIsComplete

\* C24 amended: a block-hash response accepted by CheckHash is handed to
\* WriteBuffer at most once, by CallState when the blob store has its digest
\* and by a TransferBuffer request otherwise, never both; it is handed over
\* by the next FetchFileContent that finds its tracker in pending_files, and
\* never if the tracker is removed (a block failure, or a completion) before
\* that; a FetchFileContent that dispatches leaves every hash_list empty and
\* blob_hashes_pending at 0.
C24_AcceptedDispatchedAtMostOnce == [][AcceptedIsDispatchedOrAbandoned]_vars

C24_Witness ==
  \E i \in Indices :
    /\ flow_status = "running"
    /\ i \notin DOMAIN pending_files
    /\ Calls(i, "FileFetchFailed") = 1
    /\ callbacks[i][1].name = "HashBuffer"
    /\ Issued(i, "HashBuffer") = 3
    /\ Issued(i, "TransferBuffer") = 0
    /\ Cardinality({r \in requests : r.name = "HashBuffer"}) = 1
    /\ blob_hashes_pending = 1
    /\ call_state = <<>>

\* The trackers one file store call found present. FileStoreIndex holds one
\* digest, so the hits of one call all share their sha256.
CollidingHits(k) == checks[k].hashes \cap hits

\* C25: when several trackers of one hash-phase batch share a sha256 that the
\* file-hash index reports present, all of them leave pending_hashes, none
\* enters pending_files, files_skipped counts every one of them and each gets
\* exactly one ReceiveFetchedFile.
C25_CollidingHitsAllReported ==
  /\ files_skipped = Cardinality(hits)
  /\ \A k \in 1..Len(checks) :
       Cardinality(CollidingHits(k)) >= 2 =>
         \A i \in CollidingHits(k) :
           /\ i \notin DOMAIN pending_hashes \cup DOMAIN pending_files
           /\ Issued(i, "HashBuffer") = 0
           /\ Calls(i, "ReceiveFetchedFile") = 1
           /\ Calls(i, "FileFetchFailed") = 0

\* ---- two runs that differ in a counter ----------------------------------
\* What a run does that its caller and the client can see: the requests it
\* issues, the maps and lists it keeps, the callbacks and files it produces.
Observable(s) ==
  [pending_hashes |-> s.pending_hashes, pending_files |-> s.pending_files,
   indexed_pathspecs |-> s.indexed_pathspecs, request_data_list |-> s.request_data_list,
   next_pathspec_to_start |-> s.next_pathspec_to_start,
   requests |-> s.requests, call_state |-> s.call_state, rpc_log |-> s.rpc_log,
   callbacks |-> s.callbacks, copies |-> s.copies, images |-> s.images,
   flow_status |-> s.flow_status]

CounterValues == 0..MIN_CALL_TO_FILE_STORE

\* The same state with another value in one outcome counter.
OutcomeCounterVariants(s) ==
  UNION {{[s EXCEPT !.files_hashed = v], [s EXCEPT !.files_to_fetch = v],
          [s EXCEPT !.files_fetched = v], [s EXCEPT !.files_skipped = v]} :
         v \in CounterValues} \ {s}

\* The same state with another value in one batching counter.
BatchCounterVariants(s) ==
  UNION {{[s EXCEPT !.files_hashed_since_check = v], [s EXCEPT !.blob_hashes_pending = v]} :
         v \in CounterValues} \ {s}

\* The bundles the runtime may deliver next, the same for every variant.
Bundles ==
  {<<"StoreStat", r, TRUE, sz, None, None>> :
     r \in {q \in requests : q.name = "StatFile"}, sz \in workload.st_sizes}
  \cup {<<"StoreStat", r, FALSE, Unset, None, None>> :
          r \in {q \in requests : q.name = "StatFile"}}
  \cup {<<"ReceiveFileHash", r, TRUE, kind, sha256, bytes_read>> :
          r \in {q \in requests : q.name \in {"HashFile", "FingerprintFile"}},
          kind \in HashResponseKinds, sha256 \in FileDigests,
          bytes_read \in workload.bytes_read}
  \cup {<<"ReceiveFileHash", r, FALSE, None, None, Unset>> :
          r \in {q \in requests : q.name \in {"HashFile", "FingerprintFile"}}}
  \cup {<<"CheckHash", r, TRUE, data, None, None>> :
          r \in {q \in requests : q.name = "HashBuffer"}, data \in BlockDigests}
  \cup {<<"CheckHash", r, FALSE, None, None, None>> :
          r \in {q \in requests : q.name = "HashBuffer"}}
  \cup {<<"WriteBuffer", r, ok, None, None, None>> :
          r \in {q \in requests : q.name = "TransferBuffer"}, ok \in BOOLEAN}
  \cup {<<"CallState", Head(call_state[k]), TRUE, None, None, None>> : k \in 1..Len(call_state)}
  \cup (IF entry.mode # "none" /\ OutstandingRequests(Bag) = 0
        THEN {<<"End", None, TRUE, None, None, None>>} ELSE {})

Deliver(s, b) ==
  LET r == b[2]
      s0 == [s EXCEPT !.requests = @ \ {r}]
  IN CASE b[1] = "StoreStat" -> StoreStat(s0, r, b[3], b[4])
       [] b[1] = "ReceiveFileHash" -> ReceiveFileHash(s0, r, b[3], b[4], b[5], b[6])
       [] b[1] = "CheckHash" -> CheckHash(s0, r, b[3], b[4])
       [] b[1] = "WriteBuffer" ->
            WriteBuffer(s0, r.index, r.name, b[3],
                        [data |-> r.data, offset |-> r.offset,
                         length |-> r.length, pathspec |-> r.pathspec])
       [] b[1] = "CallState" -> WriteBuffer(s, r.index, "CallState", TRUE, r.response)
       [] b[1] = "End" -> End(s)

SameBehaviour(s, t) == \A b \in Bundles : Observable(Deliver(s, b)) = Observable(Deliver(t, b))

\* SameBehaviour(s, t) for every t of a set the predicate selects from.
AllSameBehaviour(s, variants) ==
  \A b \in Bundles :
    LET seen == Observable(Deliver(s, b))
    IN \A t \in variants : Observable(Deliver(t, b)) = seen

\* C26 as stated: no counter influences control flow: whatever bundle comes
\* next, a run that differs from this one only in the value of a counter
\* issues the same requests, makes the same map updates and invokes the same
\* callbacks.
C26_CountersDoNotSteer ==
  flow_status = "running" =>
    AllSameBehaviour(Bag, OutcomeCounterVariants(Bag) \cup BatchCounterVariants(Bag))

\* Two values of a batching counter that the next increment puts on the same
\* side of both thresholds.
SameSideOfThresholds(s, t) ==
  /\ (s.files_hashed_since_check + 1 >= MIN_CALL_TO_FILE_STORE)
       <=> (t.files_hashed_since_check + 1 >= MIN_CALL_TO_FILE_STORE)
  /\ (s.blob_hashes_pending + 1 > MIN_CALL_TO_FILE_STORE)
       <=> (t.blob_hashes_pending + 1 > MIN_CALL_TO_FILE_STORE)

\* C26 amended: the outcome counters files_hashed, files_to_fetch,
\* files_fetched and files_skipped influence no request, map update or
\* callback; files_hashed_since_check and blob_hashes_pending do, but only
\* through the threshold tests of ReceiveFileHash and CheckHash: two runs
\* whose batching counters are on the same side of the thresholds behave the
\* same.
C26_OnlyBatchCountersSteer ==
  flow_status = "running" =>
    /\ AllSameBehaviour(Bag, OutcomeCounterVariants(Bag))
    /\ AllSameBehaviour(Bag, {t \in BatchCounterVariants(Bag) : SameSideOfThresholds(Bag, t)})

C26_Witness ==
  /\ flow_status = "running"
  /\ files_hashed > 0
  /\ \E t \in BatchCounterVariants(Bag) :
       /\ t.blob_hashes_pending # blob_hashes_pending
       /\ ~SameBehaviour(Bag, t)
  /\ \E t \in BatchCounterVariants(Bag) :
       /\ t.files_hashed_since_check # files_hashed_since_check
       /\ ~SameBehaviour(Bag, t)

\* The step runs the hash-phase batcher: every tracker it sees with a
\* composite hash had its stat entry before the step.
BatcherSeesStat ==
  Len(checks') > Len(checks) =>
    \A i \in checks'[Len(checks')].hashes :
      pending_hashes[i].stat_entry # NoStatEntry

PendingFilesComplete ==
  \A i \in DOMAIN pending_files :
    /\ pending_files[i].stat_entry # NoStatEntry
    /\ pending_files[i].hash_obj # NoHash
    /\ pending_files[i].size_to_download # Unset

\* C27: whenever the hash-phase batcher processes a tracker that holds a
\* composite hash, the tracker holds a stat entry already, so that every
\* tracker in pending_files has stat_entry, hash_obj and size_to_download,
\* whatever the order of the StatFile and HashFile bundles of a file.
C27_StatPresentWhenFlushed ==
  /\ []PendingFilesComplete
  /\ [][BatcherSeesStat]_vars

\* The step delivers the successful bundle of a StatFile request.
StatSuccess(request) ==
  /\ flow_status = "running"
  /\ request.name = "StatFile"
  /\ request \notin requests'
  /\ \E st_size \in workload.st_sizes :
       Commit(StoreStat([Bag EXCEPT !.requests = @ \ {request}], request, TRUE, st_size))

StatLookupSucceeds ==
  \A request \in requests :
    StatSuccess(request) =>
      /\ request.index \in DOMAIN pending_hashes
      /\ flow_status' = "running"
      /\ pending_hashes'[request.index].stat_entry # NoStatEntry

\* C28: when a successful StatFile bundle is dispatched to StoreStat, the
\* tracker of its index is in pending_hashes, so that the lookup
\* pending_hashes[index] succeeds and the stat entry is stored, also when the
\* hash bundle of the file was handled first.
C28_StatLookupNeverFails == [][StatLookupSucceeds]_vars

\* The trackers of pending_hashes that hold a composite hash.
HashedPending == {i \in DOMAIN pending_hashes : pending_hashes[i].hash_obj # NoHash}

HashedPendingCounted ==
  /\ Cardinality(HashedPending) <= files_hashed_since_check
  /\ files_hashed_since_check < MIN_CALL_TO_FILE_STORE

\* The step runs the hash-phase batcher on a non-empty pending_hashes.
BatcherFlushesAll ==
  Len(checks') > Len(checks) =>
    /\ \A i \in DOMAIN pending_hashes' : pending_hashes'[i].hash_obj = NoHash
    /\ files_hashed_since_check' = 0

\* C29: between dispatches at most files_hashed_since_check trackers of
\* pending_hashes hold a composite hash and files_hashed_since_check is
\* below MIN_CALL_TO_FILE_STORE; a run of _CheckHashesWithFileStore on a
\* non-empty pending_hashes leaves no tracker with a composite hash in
\* pending_hashes and files_hashed_since_check at 0.
C29_HashedPendingCounted ==
  /\ []HashedPendingCounted
  /\ [][BatcherFlushesAll]_vars

Tracked == DOMAIN pending_hashes \cup DOMAIN pending_files

\* C30: indexed_pathspecs and request_data_list have the same length; every
\* key of pending_hashes or pending_files is below next_pathspec_to_start and
\* its slot in indexed_pathspecs is not cleared; a cleared slot belongs to an
\* index that is in neither map.
C30_TrackedSlotsNotCleared ==
  /\ Len(indexed_pathspecs) = Len(request_data_list)
  /\ \A i \in Tracked :
       /\ i < next_pathspec_to_start
       /\ indexed_pathspecs[i + 1] # None
  /\ \A k \in 1..Len(indexed_pathspecs) :
       indexed_pathspecs[k] = None => (k - 1) \notin Tracked

C30_Witness ==
  /\ flow_status = "running"
  /\ \E i \in Indices : indexed_pathspecs[i + 1] = None
  /\ DOMAIN pending_files # {}
  /\ next_pathspec_to_start = Len(indexed_pathspecs)

====
